---- MODULE Spec2Model ----
(***************************************************************************)
(* Model of the document ingestion path of the SAM Law portal              *)
(* (src/utils/file_handler.py): allowed_file, save_uploaded_file,          *)
(* get_file_path, delete_file and list_uploaded_files, run by worker       *)
(* threads against one shared upload directory tree; and of the routes of   *)
(* the web application (src/app.py) over the database of src/models.py.    *)
(*                                                                         *)
(* Text is a sequence of one-character strings, so that rsplit, lower,     *)
(* startswith and the sanitiser work on characters as the Python code      *)
(* does.  File contents are sequences of byte values.                      *)
(***************************************************************************)
EXTENDS Integers, Sequences, FiniteSets, TLC

(***************************************************************************)
(* Bounds of the model.                                                    *)
(***************************************************************************)
\* longest claimed filename enumerated for allowed_file
MaxNameLen == 5
\* longest upload stream, in bytes
MaxLen == 3
\* number of identifiers uuid4 hands out in one run
MaxIngests == 2
\* number of rows the /api endpoints add to the database in one run
MaxRows == 2

(***************************************************************************)
(* Program constants, scaled down so that files around the limits fit the  *)
(* bounds: MAX_FILE_SIZE is 50 * 1024 * 1024 bytes, the block read by      *)
(* get_file_hash is 4096 bytes, str(uuid.uuid4()) is 36 characters long.   *)
(***************************************************************************)
MAX_FILE_SIZE == 2
BLOCK_SIZE == 1
UUID_LEN == 2

Procs == {"w1", "w2"}
Cases == {"SAML-00001", "SAML-00002"}
Bytes == {0, 1}
UuidChars == {"a", "b"}
\* characters of the claimed filenames enumerated for allowed_file
NameChars == {"p", "d", "f", "P", "t", "x", "."}

(***************************************************************************)
(* Sequences                                                               *)
(***************************************************************************)
SeqsUpTo(S, n) == UNION {[1..k -> S] : k \in 0..n}

SeqsOfLen(S, n) == [1..n -> S]

Take(s, n) == SubSeq(s, 1, n)

Drop(s, n) == SubSeq(s, n + 1, Len(s))

Min(a, b) == IF a < b THEN a ELSE b

(***************************************************************************)
(* str methods used by the code                                            *)
(***************************************************************************)
\* c.lower() for one character
LowerChar(c) ==
    CASE c = "P" -> "p"
      [] c = "D" -> "d"
      [] c = "F" -> "f"
      [] c = "T" -> "t"
      [] c = "X" -> "x"
      [] OTHER -> c

\* s.lower()
Lower(s) == [i \in 1..Len(s) |-> LowerChar(s[i])]

\* c in s
Contains(s, c) == \E i \in 1..Len(s) : s[i] = c

\* s.rfind(c): the last index holding c, 0 when there is none
RECURSIVE RFind(_, _)
RFind(s, c) ==
    IF Len(s) = 0 THEN 0
    ELSE IF s[Len(s)] = c THEN Len(s)
    ELSE RFind(Take(s, Len(s) - 1), c)

\* s.rsplit('.', 1): the list of parts, cut at the last dot
RSplit1(s) ==
    LET i == RFind(s, ".")
    IN  IF i = 0 THEN <<s>> ELSE <<Take(s, i - 1), Drop(s, i)>>

\* the test of get_file_path as it would be with == in place of startswith
StartsWithWholeName(name, prefix) == name = prefix

\* name.startswith(prefix)
StartsWith(name, prefix) ==
    /\ Len(prefix) <= Len(name)
    /\ Take(name, Len(prefix)) = prefix

\* s.strip("._")
RECURSIVE LStrip(_)
LStrip(s) ==
    IF Len(s) > 0 /\ s[1] \in {".", "_"} THEN LStrip(Tail(s)) ELSE s

RECURSIVE RStrip(_)
RStrip(s) ==
    IF Len(s) > 0 /\ s[Len(s)] \in {".", "_"}
    THEN RStrip(Take(s, Len(s) - 1)) ELSE s

Strip(s) == RStrip(LStrip(s))

(***************************************************************************)
(* Configuration                                                           *)
(***************************************************************************)
\* the keys of ALLOWED_EXTENSIONS with their media types
ALLOWED_EXTENSIONS ==
    (<<"p", "d", "f">> :> "application/pdf")
    @@ (<<"d", "o", "c">> :> "application/msword")
    @@ (<<"d", "o", "c", "x">> :>
          "application/vnd.openxmlformats-officedocument.wordprocessingml.document")
    @@ (<<"j", "p", "g">> :> "image/jpeg")
    @@ (<<"j", "p", "e", "g">> :> "image/jpeg")
    @@ (<<"p", "n", "g">> :> "image/png")
    @@ (<<"t", "x", "t">> :> "text/plain")

UPLOAD_FOLDER == "uploads"

\* allowed_file as it would be with the .lower() forgotten
AllowedFileCaseSensitive(filename) ==
    /\ Contains(filename, ".")
    /\ RSplit1(filename)[2] \in DOMAIN ALLOWED_EXTENSIONS

\* allowed_file(filename)
allowed_file(filename) ==
    /\ Contains(filename, ".")
    /\ Lower(RSplit1(filename)[2]) \in DOMAIN ALLOWED_EXTENSIONS

(***************************************************************************)
(* werkzeug.utils.secure_filename, as the code calls it on a POSIX host:   *)
(* path separators become spaces, the whitespace-separated words are       *)
(* joined by "_", every character outside [A-Za-z0-9_.-] is removed and    *)
(* leading and trailing "." and "_" are stripped.                          *)
(***************************************************************************)
SafeChars ==
    {"p", "d", "f", "t", "x", "P", "D", "F", "T", "X", "a", "b", "_", ".", "-"}

ReplaceSep(s) == [i \in 1..Len(s) |-> IF s[i] = "/" THEN " " ELSE s[i]]

\* "_".join(s.split()); st is "start", "word" or "gap"
RECURSIVE JoinWords(_, _)
JoinWords(s, st) ==
    IF Len(s) = 0 THEN <<>>
    ELSE IF s[1] = " "
         THEN JoinWords(Tail(s), IF st = "start" THEN "start" ELSE "gap")
         ELSE (IF st = "gap" THEN <<"_">> ELSE <<>>)
              \o <<s[1]>> \o JoinWords(Tail(s), "word")

StripUnsafe(s) == SelectSeq(s, LAMBDA c : c \in SafeChars)

secure_filename(filename) ==
    Strip(StripUnsafe(JoinWords(ReplaceSep(filename), "start")))

(***************************************************************************)
(* hashlib.sha256: the accumulator absorbs bytes one after another; over   *)
(* the byte values of the model the digest below is collision free, as     *)
(* SHA-256 is taken to be.                                                 *)
(***************************************************************************)
Sha256Init == 0

RECURSIVE Sha256Update(_, _)
Sha256Update(acc, block) ==
    IF Len(block) = 0 THEN acc
    ELSE Sha256Update(acc * 3 + block[1] + 1, Tail(block))

\* the digest of a byte string hashed in one go
Sha256(bytes) == Sha256Update(Sha256Init, bytes)

\* the loop of get_file_hash: f.read(4096) until it returns b""
RECURSIVE HashBlocks(_, _)
HashBlocks(acc, rest) ==
    LET byte_block == Take(rest, Min(BLOCK_SIZE, Len(rest)))
    IN  IF Len(byte_block) = 0 THEN acc
        ELSE HashBlocks(Sha256Update(acc, byte_block), Drop(rest, Len(byte_block)))

\* get_file_hash with the loop forgotten: only the first block is hashed
GetFileHashFirstBlock(content) ==
    Sha256Update(Sha256Init, Take(content, Min(BLOCK_SIZE, Len(content))))

\* get_file_hash(file_path), given the content of the file
get_file_hash(content) == HashBlocks(Sha256Init, content)

\* get_file_size(file_path), given the content of the file
get_file_size(content) == Len(content)

(***************************************************************************)
(* Paths                                                                   *)
(***************************************************************************)
\* the upload directory with one subdirectory for all the cases
CaseDirShared(case_id) == <<UPLOAD_FOLDER, "SAML-00001">>

\* os.path.join(UPLOAD_FOLDER, case_id)
CaseDir(case_id) == <<UPLOAD_FOLDER, case_id>>

\* os.path.join(case_upload_dir, filename)
PathJoin(case_upload_dir, filename) == Append(case_upload_dir, filename)

NoPath == <<>>

\* f"{unique_id}.{file_ext}" with the identifier left out of the name
StoredFilenameNoId(unique_id, file_ext) == <<"x">> \o <<".">> \o file_ext

\* f"{unique_id}.{file_ext}"
StoredFilename(unique_id, file_ext) == unique_id \o <<".">> \o file_ext

\* the values str(uuid.uuid4()) can take
Uuids == SeqsOfLen(UuidChars, UUID_LEN)

\* an identifier derived from the upload instead of drawn at random: calls
\* can get the same one
Uuid4Repeating(used) == Uuids

\* uuid.uuid4(): a random 122-bit identifier, taken never to repeat; used
\* holds the identifiers returned so far
uuid4(used) == Uuids \ used

(***************************************************************************)
(* State                                                                   *)
(***************************************************************************)
VARIABLES
    disk,    \* the regular files under UPLOAD_FOLDER: path -> content
    dirs,    \* the case directories that exist
    issued,  \* the identifiers uuid4 has returned so far
    pc,      \* where each worker is in the call it runs
    arg,     \* the arguments of the call
    loc,     \* the local variables of the call
    res,     \* what the call returned
    pre,     \* history: the files on disk when the last call began
    ingested,     \* history: the documents stored and not removed since,
                  \* with the path and size save_uploaded_file returned
    current_user, \* the user of the browser session (flask_login)
    db,           \* the rows of the tables cases, documents, timeline_events
                  \* and notes
    response      \* what the last request was answered with

\* the state of the web application
web == <<current_user, db, response>>

\* the state of the file handler
fs == <<disk, dirs, issued, pc, arg, loc, res, pre, ingested>>

vars == <<disk, dirs, issued, pc, arg, loc, res, pre, ingested, web>>

\* the filenames in a case directory: os.listdir(case_upload_dir)
ListDir(d, case_upload_dir) ==
    {path[3] : path \in {q \in DOMAIN d : <<q[1], q[2]>> = case_upload_dir}}

\* the file system after writing content at path
WriteFile(d, path, content) ==
    [q \in DOMAIN d \cup {path} |-> IF q = path THEN content ELSE d[q]]

\* os.remove(path) forgotten: the file stays
RemoveFileKeeps(d, path) == d

\* the file system after os.remove(path)
RemoveFile(d, path) == [q \in DOMAIN d \ {path} |-> d[q]]

NoArg == [op |-> "none", case_id |-> "", document_id |-> <<>>,
          file |-> [present |-> FALSE, filename |-> <<>>, stream |-> <<>>]]

NoLoc == [original_filename |-> <<>>, file_ext |-> <<>>, unique_id |-> <<>>,
          file_path |-> NoPath, file_size |-> 0, file_hash |-> 0,
          listing |-> <<>>, files |-> <<>>]

NoRes == [kind |-> "none"]

(***************************************************************************)
(* The database of the web application (src/models.py) as src/seed_data.py *)
(* fills it: the client Chris Hallberg, the lawyer Emma Rodriguez and the  *)
(* case SAML-00001 of which Chris is the client.  Dates are numbered in    *)
(* calendar order: 1 is 2024-06-15, 2 is 2025-10-01, 3 is 2025-10-25.      *)
(***************************************************************************)
Users ==
    { [id |-> 1, email |-> "chris@xibalba.io", password |-> "secure123",
       role |-> "client"],
      [id |-> 2, email |-> "emma.rodriguez@samlaw.io", password |-> "lawyer123",
       role |-> "lawyer"] }

SeedCases ==
    { [id |-> 1, case_number |-> "SAML-00001", client_id |-> 1, lawyer_id |-> 2] }

SeedEvents ==
    { [id |-> 1, case_id |-> 1, event_type |-> "deadline", event_date |-> 3,
       status |-> "upcoming", created_by |-> 1],
      [id |-> 2, case_id |-> 1, event_type |-> "milestone", event_date |-> 1,
       status |-> "completed", created_by |-> 1],
      [id |-> 3, case_id |-> 1, event_type |-> "meeting", event_date |-> 2,
       status |-> "completed", created_by |-> 2] }

SeedNotes ==
    { [id |-> 1, case_id |-> 1, created_by |-> 1],
      [id |-> 2, case_id |-> 1, created_by |-> 1],
      [id |-> 3, case_id |-> 1, created_by |-> 2] }

\* flask_login's AnonymousUserMixin: the current_user of a session not logged in
Anonymous == [is_authenticated |-> FALSE, id |-> 0]

\* the current_user of a session logged in as the user with this id
LoggedIn(id) == [is_authenticated |-> TRUE, id |-> id]

\* data/case_data.json as init_data writes it
CASE_FILE == [case_number |-> "SAML-00001", client_name |-> "Chris Hallberg"]

\* a response: the route, the user it was made for, what came back, the case
\* whose data the page holds, the cases of the rows it shows, the cases of the
\* rows the request added
NoResponse ==
    [route |-> "", user |-> Anonymous, status |-> "none", case |-> "",
     rows |-> {}, wrote |-> {}]

Init ==
    /\ disk = <<>>
    /\ dirs = {}
    /\ issued = {}
    /\ pc = [p \in Procs |-> "idle"]
    /\ arg = [p \in Procs |-> NoArg]
    /\ loc = [p \in Procs |-> NoLoc]
    /\ res = [p \in Procs |-> NoRes]
    /\ pre = <<>>
    /\ ingested = {}
    /\ current_user = Anonymous
    /\ db = [cases |-> SeedCases, documents |-> {},
             timeline_events |-> SeedEvents, notes |-> SeedNotes]
    /\ response = NoResponse

(***************************************************************************)
(* Inputs                                                                  *)
(***************************************************************************)
\* the claimed filenames of the uploads: "x.Pdf", ".pdf", "x.x" and ""
ClaimedNames ==
    { <<"x", ".", "P", "d", "f">>, <<".", "p", "d", "f">>, <<"x", ".", "x">>, <<>> }

\* the upload streams: the byte strings of alternating bytes
Streams ==
    {s \in SeqsUpTo(Bytes, MaxLen) : \A i \in 1..(Len(s) - 1) : s[i] # s[i + 1]}

NoFile == [present |-> FALSE, filename |-> <<>>, stream |-> <<>>]

\* the uploads that reach the disk: "x.Pdf" with every stream
StoredFiles ==
    [present : {TRUE}, filename : {<<"x", ".", "P", "d", "f">>}, stream : Streams]

\* the file argument: None, or a FileStorage with a filename and a stream;
\* the stream of an upload that is turned away is never read
Files ==
    {NoFile} \cup StoredFiles
    \cup [present : {TRUE}, filename : ClaimedNames, stream : {<<0>>}]

\* bool(file): FileStorage is truthy when it has a filename
Truthy(file) == file.present /\ file.filename # <<>>

\* the document_id arguments: every identifier and every prefix of one
DocIds == SeqsUpTo(UuidChars, UUID_LEN)

\* the inputs of sequential runs, of concurrent runs, and of runs in which the
\* uploads run alone and the other calls concurrently
SeqInputs ==
    [cases |-> Cases, files |-> Files, docs |-> DocIds, seq |-> TRUE,
     alone |-> {}, ledger |-> FALSE]

ConcInputs ==
    [cases |-> {"SAML-00001"}, files |-> StoredFiles, docs |-> DocIds,
     seq |-> FALSE, alone |-> {}, ledger |-> FALSE]

\* sequential runs that keep the record of the documents stored
LedgerInputs == [SeqInputs EXCEPT !.ledger = TRUE]

ScanInputs == [ConcInputs EXCEPT !.alone = {"save_uploaded_file"}]

\* the uploads are the prefixes of 0 1 0 1 ..., and delete_file is called with
\* the empty identifier, with which it can remove any file of the case
UploadInputs ==
    [ConcInputs EXCEPT
       !.docs = {<<>>},
       !.files = {f \in StoredFiles : f.stream = <<>> \/ Head(f.stream) = 0}]

\* delete_file calls with whole identifiers run concurrently, the uploads
\* alone; the files a call finds when it begins are recorded
RaceInputs ==
    [UploadInputs EXCEPT
       !.docs = Uuids, !.seq = TRUE, !.alone = {"save_uploaded_file"}]

(***************************************************************************)
(* Calls                                                                   *)
(***************************************************************************)
Failure(kind) == [kind |-> kind]

\* an exception no handler of the module catches leaves the call
Raised == [kind |-> "raised"]

\* the call returns r (or is left by an exception); its locals are gone
Finish(p, r) ==
    /\ pc' = [pc EXCEPT ![p] = "done"]
    /\ res' = [res EXCEPT ![p] = r]
    /\ loc' = [loc EXCEPT ![p] = NoLoc]

\* the call goes on at label with the locals l
Goto(p, label, l) ==
    /\ pc' = [pc EXCEPT ![p] = label]
    /\ loc' = [loc EXCEPT ![p] = l]
    /\ UNCHANGED res

\* a call begins, unless it has to run alone, or wait for one that has to;
\* sequential runs record the files it finds
Enter(p, a, in) ==
    /\ pc[p] = "idle"
    /\ a.op \in in.alone => \A q \in Procs \ {p} : pc[q] = "idle"
    /\ \A q \in Procs \ {p} :
          arg[q].op \in in.alone => pc[q] \in {"idle", "done"}
    /\ arg' = [arg EXCEPT ![p] = a]
    /\ pre' = IF in.seq THEN disk ELSE pre

(***************************************************************************)
(* save_uploaded_file                                                      *)
(***************************************************************************)
\* lines 58-68: the checks, the sanitised name, the extension, the identifier
SaveBegin(p, file, case_id, in) ==
    /\ Enter(p, [NoArg EXCEPT !.op = "save_uploaded_file", !.file = file,
                              !.case_id = case_id], in)
    /\ UNCHANGED <<disk, dirs, ingested, web>>
    /\ IF ~Truthy(file)
       THEN Finish(p, Failure("NoFile")) /\ UNCHANGED issued
       ELSE IF ~allowed_file(file.filename)
       THEN Finish(p, Failure("UnsupportedType")) /\ UNCHANGED issued
       ELSE LET original_filename == secure_filename(file.filename)
                parts == RSplit1(original_filename)
            IN  IF Len(parts) < 2
                THEN \* rsplit(...)[1] raises IndexError
                     Finish(p, Raised) /\ UNCHANGED issued
                ELSE /\ Cardinality(issued) < MaxIngests
                     /\ \E unique_id \in uuid4(issued) :
                          /\ issued' = issued \cup {unique_id}
                          /\ Goto(p, "makedirs",
                               [NoLoc EXCEPT
                                  !.original_filename = original_filename,
                                  !.file_ext = Lower(parts[2]),
                                  !.unique_id = unique_id,
                                  !.file_path =
                                     PathJoin(CaseDir(case_id),
                                        StoredFilename(unique_id, Lower(parts[2])))])

\* lines 71-72: os.makedirs(case_upload_dir, exist_ok=True)
SaveMakedirs(p) ==
    /\ pc[p] = "makedirs"
    /\ dirs' = dirs \cup {CaseDir(arg[p].case_id)}
    /\ Goto(p, "open", loc[p])
    /\ UNCHANGED <<disk, issued, arg, pre, ingested, web>>

\* lines 77-80, file.save: the destination is opened for writing, which
\* creates it empty (or truncates it), or the open fails
SaveOpen(p) ==
    /\ pc[p] = "open"
    /\ \/ /\ disk' = WriteFile(disk, loc[p].file_path, <<>>)
          /\ Goto(p, "copy", loc[p])
       \/ /\ UNCHANGED disk
          /\ Finish(p, Failure("WriteFailure"))
    /\ UNCHANGED <<dirs, issued, arg, pre, ingested, web>>

\* what the open descriptor leaves on disk: a file unlinked meanwhile stays gone
WriteOpened(d, path, content) ==
    IF path \in DOMAIN d THEN WriteFile(d, path, content) ELSE d

\* lines 77-80, file.save: the stream is copied to the destination; an I/O
\* error part-way leaves the bytes written so far
SaveCopy(p) ==
    /\ pc[p] = "copy"
    /\ LET stream == arg[p].file.stream
       IN  \/ /\ disk' = WriteOpened(disk, loc[p].file_path, stream)
              /\ Goto(p, "getsize", loc[p])
           \/ \E k \in 0..(Len(stream) - 1) :
                /\ disk' = WriteOpened(disk, loc[p].file_path, Take(stream, k))
                /\ Finish(p, Failure("WriteFailure"))
    /\ UNCHANGED <<dirs, issued, arg, pre, ingested, web>>

\* line 83: file_size = get_file_size(file_path)
SaveGetSize(p) ==
    /\ pc[p] = "getsize"
    /\ IF loc[p].file_path \in DOMAIN disk
       THEN Goto(p, "gethash",
               [loc[p] EXCEPT !.file_size = get_file_size(disk[loc[p].file_path])])
       ELSE Finish(p, Raised)
    /\ UNCHANGED <<disk, dirs, issued, arg, pre, ingested, web>>

\* line 84: file_hash = get_file_hash(file_path)
SaveGetHash(p) ==
    /\ pc[p] = "gethash"
    /\ IF loc[p].file_path \in DOMAIN disk
       THEN Goto(p, "checksize",
               [loc[p] EXCEPT !.file_hash = get_file_hash(disk[loc[p].file_path])])
       ELSE Finish(p, Raised)
    /\ UNCHANGED <<disk, dirs, issued, arg, pre, ingested, web>>

\* lines 95-112: the metadata of a stored file
Metadata(a, l) ==
    [kind |-> "ok",
     document_id |-> l.unique_id,
     original_filename |-> l.original_filename,
     stored_filename |-> StoredFilename(l.unique_id, l.file_ext),
     file_path |-> l.file_path,
     file_size |-> l.file_size,
     file_hash |-> l.file_hash,
     file_type |-> l.file_ext,
     mime_type |-> ALLOWED_EXTENSIONS[l.file_ext],
     case_id |-> a.case_id,
     ocr_status |-> "pending",
     tags |-> <<>>,
     version |-> 1]

\* the size check with the limit itself rejected
TooLargeInclusive(file_size) == file_size >= MAX_FILE_SIZE

\* line 87: file_size > MAX_FILE_SIZE
TooLarge(file_size) == file_size > MAX_FILE_SIZE

\* lines 87-114: the size check, the removal of an oversize file, the return
SaveCheckSize(p, in) ==
    /\ pc[p] = "checksize"
    /\ IF TooLarge(loc[p].file_size)
       THEN IF loc[p].file_path \in DOMAIN disk
            THEN /\ disk' = RemoveFile(disk, loc[p].file_path)
                 /\ Finish(p, Failure("FileTooLarge"))
                 /\ UNCHANGED ingested
            ELSE \* os.remove raises FileNotFoundError
                 /\ UNCHANGED <<disk, ingested>>
                 /\ Finish(p, Raised)
       ELSE /\ UNCHANGED disk
            /\ Finish(p, Metadata(arg[p], loc[p]))
            /\ ingested' =
                  IF in.ledger
                  THEN ingested \cup
                         {[path |-> loc[p].file_path, size |-> loc[p].file_size]}
                  ELSE ingested
    /\ UNCHANGED <<dirs, issued, arg, pre, web>>

(***************************************************************************)
(* get_file_path                                                           *)
(***************************************************************************)
\* lines 121-123: the directory entries the scan can stop at
Matches(d, ds, document_id, case_id) ==
    IF CaseDir(case_id) \in ds
    THEN {filename \in ListDir(d, CaseDir(case_id)) :
             StartsWith(filename, document_id)}
    ELSE {}

\* lines 116-126: os.listdir returns the entries in arbitrary order, so the
\* first match is any match
get_file_path(d, ds, document_id, case_id) ==
    IF Matches(d, ds, document_id, case_id) = {}
    THEN {NoPath}
    ELSE {PathJoin(CaseDir(case_id), filename) :
             filename \in Matches(d, ds, document_id, case_id)}

GetFilePath(p, document_id, case_id, in) ==
    /\ Enter(p, [NoArg EXCEPT !.op = "get_file_path",
                              !.document_id = document_id, !.case_id = case_id], in)
    /\ \E file_path \in get_file_path(disk, dirs, document_id, case_id) :
          Finish(p, [kind |-> "path", file_path |-> file_path])
    /\ UNCHANGED <<disk, dirs, issued, ingested, web>>

(***************************************************************************)
(* delete_file                                                             *)
(***************************************************************************)
\* line 130, and the first half of the test of line 132
DeleteBegin(p, document_id, case_id, in) ==
    /\ Enter(p, [NoArg EXCEPT !.op = "delete_file",
                              !.document_id = document_id, !.case_id = case_id], in)
    /\ \E file_path \in get_file_path(disk, dirs, document_id, case_id) :
          IF file_path = NoPath
          THEN Finish(p, Failure("NotFound"))
          ELSE Goto(p, "del_exists", [NoLoc EXCEPT !.file_path = file_path])
    /\ UNCHANGED <<disk, dirs, issued, ingested, web>>

\* line 132: os.path.exists(file_path)
DeleteExists(p) ==
    /\ pc[p] = "del_exists"
    /\ IF loc[p].file_path \in DOMAIN disk
       THEN Goto(p, "del_remove", loc[p])
       ELSE Finish(p, Failure("NotFound"))
    /\ UNCHANGED <<disk, dirs, issued, arg, pre, ingested, web>>

\* os.remove without the try around it: its exception leaves delete_file
RemoveFailedUnhandled == Raised

\* lines 136-137: the except branch turns the error of os.remove into a result
RemoveFailed == Failure("DeleteFailure")

\* lines 133-137: os.remove(file_path) under try
DeleteRemove(p, in) ==
    /\ pc[p] = "del_remove"
    /\ IF loc[p].file_path \in DOMAIN disk
       THEN /\ disk' = RemoveFile(disk, loc[p].file_path)
            /\ ingested' =
                  IF in.ledger
                  THEN {e \in ingested : e.path # loc[p].file_path}
                  ELSE ingested
            /\ Finish(p, [kind |-> "deleted"])
       ELSE /\ UNCHANGED <<disk, ingested>>
            /\ Finish(p, RemoveFailed)
    /\ UNCHANGED <<dirs, issued, arg, pre, web>>

(***************************************************************************)
(* list_uploaded_files                                                     *)
(***************************************************************************)
\* the orders os.listdir can return a set of entries in
Orders(S) ==
    {s \in [1..Cardinality(S) -> S] :
        \A i, j \in 1..Cardinality(S) : i # j => s[i] # s[j]}

\* the for loop moves on, or the function returns files
ListAdvance(p, rest, files) ==
    IF rest = <<>>
    THEN Finish(p, [kind |-> "list", files |-> files])
    ELSE Goto(p, "isfile", [NoLoc EXCEPT !.listing = rest, !.files = files])

\* lines 143-149: the directory test and os.listdir
ListBegin(p, case_id, in) ==
    /\ Enter(p, [NoArg EXCEPT !.op = "list_uploaded_files", !.case_id = case_id],
             in)
    /\ IF CaseDir(case_id) \notin dirs
       THEN Finish(p, [kind |-> "list", files |-> <<>>])
       ELSE \E listing \in Orders(ListDir(disk, CaseDir(case_id))) :
               ListAdvance(p, listing, <<>>)
    /\ UNCHANGED <<disk, dirs, issued, ingested, web>>

ListPath(p) == PathJoin(CaseDir(arg[p].case_id), Head(loc[p].listing))

\* line 151: os.path.isfile(file_path)
ListIsFile(p) ==
    /\ pc[p] = "isfile"
    /\ IF ListPath(p) \in DOMAIN disk
       THEN Goto(p, "lgetsize", loc[p])
       ELSE ListAdvance(p, Tail(loc[p].listing), loc[p].files)
    /\ UNCHANGED <<disk, dirs, issued, arg, pre, ingested, web>>

\* line 155: get_file_size(file_path), no handler around it
ListGetSize(p) ==
    /\ pc[p] = "lgetsize"
    /\ IF ListPath(p) \in DOMAIN disk
       THEN Goto(p, "lgetmtime",
               [loc[p] EXCEPT !.file_size = get_file_size(disk[ListPath(p)])])
       ELSE Finish(p, Raised)
    /\ UNCHANGED <<disk, dirs, issued, arg, pre, ingested, web>>

\* lines 152-157: os.path.getmtime(file_path), no handler around it, and append
ListGetMtime(p) ==
    /\ pc[p] = "lgetmtime"
    /\ IF ListPath(p) \in DOMAIN disk
       THEN ListAdvance(p, Tail(loc[p].listing),
               Append(loc[p].files,
                  [filename |-> Head(loc[p].listing), path |-> ListPath(p),
                   size |-> loc[p].file_size]))
       ELSE Finish(p, Raised)
    /\ UNCHANGED <<disk, dirs, issued, arg, pre, ingested, web>>

(***************************************************************************)
(* The workers                                                             *)
(***************************************************************************)
\* the caller takes the result; the worker is free for the next call
Return(p) ==
    /\ pc[p] = "done"
    /\ pc' = [pc EXCEPT ![p] = "idle"]
    /\ arg' = [arg EXCEPT ![p] = NoArg]
    /\ res' = [res EXCEPT ![p] = NoRes]
    /\ pre' = <<>>
    /\ UNCHANGED <<disk, dirs, issued, loc, ingested, web>>

\* a step of a save_uploaded_file call
SaveStep(p, in) ==
    \/ \E file \in in.files, case_id \in in.cases : SaveBegin(p, file, case_id, in)
    \/ SaveMakedirs(p)
    \/ SaveOpen(p)
    \/ SaveCopy(p)
    \/ SaveGetSize(p)
    \/ SaveGetHash(p)
    \/ SaveCheckSize(p, in)

\* a step of a delete_file call
DeleteStep(p, in) ==
    \/ \E document_id \in in.docs, case_id \in in.cases :
          DeleteBegin(p, document_id, case_id, in)
    \/ DeleteExists(p)
    \/ DeleteRemove(p, in)

\* a step of a get_file_path or list_uploaded_files call
ReadStep(p, in) ==
    \/ \E document_id \in in.docs, case_id \in in.cases :
          GetFilePath(p, document_id, case_id, in)
    \/ \E case_id \in in.cases : ListBegin(p, case_id, in)
    \/ ListIsFile(p)
    \/ ListGetSize(p)
    \/ ListGetMtime(p)

Step(p, in) ==
    \/ SaveStep(p, in)
    \/ DeleteStep(p, in)
    \/ ReadStep(p, in)
    \/ Return(p)

\* the calls run concurrently, one file system operation at a time
Next == \E p \in Procs : Step(p, ConcInputs)

Spec == Init /\ [][Next]_vars

\* one worker runs the calls one after another, each to its return
SeqNext == Step("w1", SeqInputs)

SeqSpec == Init /\ [][SeqNext]_vars

\* the same, with the record of the documents stored and not removed since
LedgerNext == Step("w1", LedgerInputs)

LedgerSpec == Init /\ [][LedgerNext]_vars

\* the calls that write to the upload directories, run concurrently
UploadNext ==
    \E p \in Procs :
       SaveStep(p, UploadInputs) \/ DeleteStep(p, UploadInputs) \/ Return(p)

UploadSpec == Init /\ [][UploadNext]_vars

\* uploads run alone, delete_file calls run concurrently with one another
RaceNext ==
    \E p \in Procs :
       SaveStep(p, RaceInputs) \/ DeleteStep(p, RaceInputs) \/ Return(p)

RaceSpec == Init /\ [][RaceNext]_vars

\* uploads run concurrently with get_file_path and list_uploaded_files calls
ReadNext ==
    \E p \in Procs :
       SaveStep(p, ConcInputs) \/ ReadStep(p, ConcInputs) \/ Return(p)

ReadSpec == Init /\ [][ReadNext]_vars

\* uploads run alone; get_file_path, delete_file and list_uploaded_files
\* calls run concurrently with one another
ScanNext == \E p \in Procs : Step(p, ScanInputs)

ScanSpec == Init /\ [][ScanNext]_vars

(***************************************************************************)
(* allowed_file on its own, over every filename up to MaxNameLen           *)
(***************************************************************************)
AllowedFileCall(p, filename) ==
    /\ Enter(p, [NoArg EXCEPT !.op = "allowed_file",
                   !.file = [present |-> TRUE, filename |-> filename,
                             stream |-> <<>>]], SeqInputs)
    /\ Finish(p, [kind |-> "bool", value |-> allowed_file(filename)])
    /\ UNCHANGED <<disk, dirs, issued, ingested, web>>

ValidateNext ==
    \/ /\ pc["w1"] = "idle"
       /\ \E filename \in SeqsUpTo(NameChars, MaxNameLen) :
             AllowedFileCall("w1", filename)
    \/ Return("w1")

ValidateSpec == Init /\ [][ValidateNext]_vars

(***************************************************************************)
(* The routes of src/app.py.  One request is served at a time; a view      *)
(* decorated with @login_required answers a session that is not logged in  *)
(* with the redirect of login_manager.unauthorized().                      *)
(***************************************************************************)
\* the views that carry @login_required
LoginRequired ==
    {"logout", "dashboard", "documents", "timeline", "notes", "settings",
     "upload_document", "add_timeline_event", "create_note", "messages",
     "calendar", "help_page", "my_lawyers", "legal_strategy", "my_cases"}

\* the views that render data/case_data.json
CaseFileViews ==
    {"files", "email", "notifications", "direct_messages", "case_studies",
     "billing", "legal_strategy", "case_billing", "case_details",
     "communications", "conversations"}

\* the views that render Case.query.first() and nothing else
FirstCaseViews == {"messages", "help_page", "my_lawyers"}

\* the table each page of the own case reads
TableOf ==
    [documents |-> "documents", timeline |-> "timeline_events", notes |-> "notes"]

\* the dates of the events, 4 a date after all the seeded ones
Dates == 1..4

\* the JSON bodies of /api/timeline/add (date 0: no date given) and of
\* /api/notes/create
EventData ==
    [title : BOOLEAN, date : {0} \cup Dates, type : {"deadline", "milestone"}]

NoteData == [title : BOOLEAN]

\* login_required lets the view run
Admitted(view) == view \in LoginRequired => current_user.is_authenticated

Answer(view, status, case, rows, wrote) ==
    [route |-> view, user |-> current_user, status |-> status, case |-> case,
     rows |-> rows, wrote |-> wrote]

\* a request that changes neither the session nor the database
Respond(view, status, case, rows) ==
    /\ response' = Answer(view, status, case, rows, {})
    /\ UNCHANGED <<current_user, db>>

\* login_manager.unauthorized(): the redirect to login_view
Unauthorized(view) == Respond(view, "redirect_login", "", {})

\* Case.query.filter_by(client_id=id): first() returns one of these, or None
CasesOfClient(id) == {c \in db.cases : c.client_id = id}

\* the cases of the rows of a table that belong to a case
RowsOfCase(table, case) == {r.case_id : r \in {x \in db[table] : x.case_id = case.id}}

\* the rows the /api endpoints have added
RowsAdded ==
    Cardinality(db.timeline_events) + Cardinality(db.notes)
       - Cardinality(SeedEvents) - Cardinality(SeedNotes)

\* lines 110-128
Health ==
    /\ Respond("health", "json", "", {})
    /\ UNCHANGED fs

\* lines 134-154
Login(method, email, password) ==
    /\ IF current_user.is_authenticated
       THEN Respond("login", "redirect_dashboard", "", {})
       ELSE IF method = "POST"
               /\ \E user \in Users : user.email = email /\ user.password = password
       THEN /\ current_user' =
                  LoggedIn((CHOOSE user \in Users : user.email = email).id)
            /\ response' = Answer("login", "redirect_dashboard", "", {}, {})
            /\ UNCHANGED db
       ELSE Respond("login", "render", "", {})
    /\ UNCHANGED fs

\* lines 156-162
Logout ==
    /\ IF ~Admitted("logout")
       THEN Unauthorized("logout")
       ELSE /\ current_user' = Anonymous
            /\ response' = Answer("logout", "redirect_login", "", {}, {})
            /\ UNCHANGED db
    /\ UNCHANGED fs

\* lines 168-194
Dashboard ==
    /\ IF ~Admitted("dashboard")
       THEN Unauthorized("dashboard")
       ELSE IF CasesOfClient(current_user.id) = {}
       THEN Respond("dashboard", "render", "", {})
       ELSE \E case \in CasesOfClient(current_user.id) :
               Respond("dashboard", "render", case.case_number,
                  RowsOfCase("documents", case)
                     \cup RowsOfCase("timeline_events", case)
                     \cup RowsOfCase("notes", case))
    /\ UNCHANGED fs

\* lines 196-230: documents, timeline, notes
CasePage(view) ==
    /\ IF ~Admitted(view)
       THEN Unauthorized(view)
       ELSE IF CasesOfClient(current_user.id) = {}
       THEN Respond(view, "redirect_dashboard", "", {})
       ELSE \E case \in CasesOfClient(current_user.id) :
               Respond(view, "render", "", RowsOfCase(TableOf[view], case))
    /\ UNCHANGED fs

\* lines 232-237
Settings ==
    /\ IF ~Admitted("settings")
       THEN Unauthorized("settings")
       ELSE IF CasesOfClient(current_user.id) = {}
       THEN Respond("settings", "render", "", {})
       ELSE \E case \in CasesOfClient(current_user.id) :
               Respond("settings", "render", case.case_number, {})
    /\ UNCHANGED fs

\* lines 240-269: Document has no column document_type or description, so
\* the constructor at line 250 raises TypeError and nothing is added
UploadDocument ==
    /\ IF ~Admitted("upload_document")
       THEN Unauthorized("upload_document")
       ELSE IF CasesOfClient(current_user.id) = {}
       THEN Respond("upload_document", "not_found", "", {})
       ELSE Respond("upload_document", "error", "", {})
    /\ UNCHANGED fs

\* lines 271-303: strptime raises on a missing date, the commit on a missing
\* title (the column is not nullable)
AddTimelineEvent(data) ==
    /\ IF ~Admitted("add_timeline_event")
       THEN Unauthorized("add_timeline_event")
       ELSE IF CasesOfClient(current_user.id) = {}
       THEN Respond("add_timeline_event", "not_found", "", {})
       ELSE IF data.date = 0 \/ ~data.title
       THEN Respond("add_timeline_event", "error", "", {})
       ELSE /\ RowsAdded < MaxRows
            /\ \E case \in CasesOfClient(current_user.id) :
                 /\ db' = [db EXCEPT !.timeline_events = @ \cup
                             {[id |-> Cardinality(db.timeline_events) + 1,
                               case_id |-> case.id,
                               event_type |-> data.type,
                               event_date |-> data.date,
                               status |-> "upcoming",
                               created_by |-> current_user.id]}]
                 /\ response' =
                       Answer("add_timeline_event", "json", "", {}, {case.id})
            /\ UNCHANGED current_user
    /\ UNCHANGED fs

\* lines 305-334
CreateNote(data) ==
    /\ IF ~Admitted("create_note")
       THEN Unauthorized("create_note")
       ELSE IF CasesOfClient(current_user.id) = {}
       THEN Respond("create_note", "not_found", "", {})
       ELSE IF ~data.title
       THEN Respond("create_note", "error", "", {})
       ELSE /\ RowsAdded < MaxRows
            /\ \E case \in CasesOfClient(current_user.id) :
                 /\ db' = [db EXCEPT !.notes = @ \cup
                             {[id |-> Cardinality(db.notes) + 1,
                               case_id |-> case.id,
                               created_by |-> current_user.id]}]
                 /\ response' = Answer("create_note", "json", "", {}, {case.id})
            /\ UNCHANGED current_user
    /\ UNCHANGED fs

\* lines 340-366, 397-446: the pages that load CASE_FILE
CaseFilePage(view) ==
    /\ IF ~Admitted(view)
       THEN Unauthorized(view)
       ELSE Respond(view, "render", CASE_FILE.case_number, {})
    /\ UNCHANGED fs

\* Case.query.first(): None on an empty table, else a row of it
FirstCase == IF db.cases = {} THEN {""} ELSE {c.case_number : c \in db.cases}

\* lines 368-373, 383-395: messages, help, my-lawyers
FirstCasePage(view) ==
    /\ IF ~Admitted(view)
       THEN Unauthorized(view)
       ELSE \E case \in FirstCase : Respond(view, "render", case, {})
    /\ UNCHANGED fs

\* lines 375-381
Calendar ==
    /\ IF ~Admitted("calendar")
       THEN Unauthorized("calendar")
       ELSE \E case \in FirstCase :
               Respond("calendar", "render", case,
                  {e.case_id : e \in db.timeline_events})
    /\ UNCHANGED fs

\* lines 459-462: the deadlines from today on, by date, the first three
UpcomingDeadlines(today) ==
    LET deadlines == {e \in db.timeline_events :
                         e.event_type = "deadline" /\ e.event_date >= today}
    IN  {shown \in SUBSET deadlines :
            /\ Cardinality(shown) = Min(3, Cardinality(deadlines))
            /\ \A e \in shown, f \in deadlines \ shown :
                  e.event_date <= f.event_date}

\* lines 448-474
MyCases(today) ==
    /\ IF ~Admitted("my_cases")
       THEN Unauthorized("my_cases")
       ELSE \E case \in FirstCase, shown \in UpcomingDeadlines(today) :
               Respond("my_cases", "render", case, {e.case_id : e \in shown})
    /\ UNCHANGED fs

\* the requests a browser can make
WebNext ==
    \/ Health
    \/ \E method \in {"GET", "POST"},
          email \in {user.email : user \in Users} \cup {"nobody@example.com"},
          password \in {user.password : user \in Users} :
          Login(method, email, password)
    \/ Logout
    \/ Dashboard
    \/ \E view \in DOMAIN TableOf : CasePage(view)
    \/ Settings
    \/ UploadDocument
    \/ \E data \in EventData : AddTimelineEvent(data)
    \/ \E data \in NoteData : CreateNote(data)
    \/ \E view \in CaseFileViews : CaseFilePage(view)
    \/ \E view \in FirstCaseViews : FirstCasePage(view)
    \/ Calendar
    \/ \E today \in Dates : MyCases(today)

WebSpec == Init /\ [][WebNext]_vars

(***************************************************************************)
(* Properties                                                              *)
(***************************************************************************)
Done(p, op) == pc[p] = "done" /\ arg[p].op = op

Stored(p) == Done(p, "save_uploaded_file") /\ res[p].kind = "ok"

\* the identifier part of a stored filename
StemOf(filename) == RSplit1(filename)[1]

\* pdf, doc, docx, jpg, jpeg, png, txt
ListedExtensions ==
    { <<"p", "d", "f">>, <<"d", "o", "c">>, <<"d", "o", "c", "x">>,
      <<"j", "p", "g">>, <<"j", "p", "e", "g">>, <<"p", "n", "g">>,
      <<"t", "x", "t">> }

\* the filename has a dot, and what follows its last dot is, in lower case,
\* a listed extension
HasListedExtension(f) ==
    \E i \in 1..Len(f) :
       /\ f[i] = "."
       /\ \A j \in (i + 1)..Len(f) : f[j] # "."
       /\ \E e \in ListedExtensions :
             /\ Len(e) = Len(f) - i
             /\ \A k \in 1..Len(e) : LowerChar(f[i + k]) = e[k]

\* C1: allowed_file returns true exactly for the filenames that contain a dot
\* and whose text after the last dot, lowercased, is one of pdf, doc, docx,
\* jpg, jpeg, png, txt; every other filename is rejected.
C1_AllowedFileIffListedExtension ==
    \A p \in Procs :
       Done(p, "allowed_file") =>
          (res[p].value <=> HasListedExtension(arg[p].file.filename))

\* an accepted filename with two dots and an upper-case letter in the extension
C1_Witness ==
    \E p \in Procs :
       /\ Done(p, "allowed_file")
       /\ res[p].value
       /\ arg[p].file.filename = <<".", ".", "P", "d", "f">>

\* C2: a successful save_uploaded_file returns the byte length of the input
\* as file_size and the hash of the input bytes as file_hash, and the file at
\* file_path holds exactly the input bytes.
C2_MetadataMatchesInput ==
    \A p \in Procs :
       Stored(p) =>
          /\ res[p].file_size = Len(arg[p].file.stream)
          /\ res[p].file_hash = Sha256(arg[p].file.stream)
          /\ res[p].file_path \in DOMAIN disk
          /\ disk[res[p].file_path] = arg[p].file.stream

\* a stored upload longer than one block of the hash loop
C2_Witness ==
    \E p \in Procs : Stored(p) /\ Len(arg[p].file.stream) > BLOCK_SIZE

\* the files of the case that held the bytes of the stream when the call began
SameBytesBefore(p) ==
    {q \in DOMAIN pre :
        /\ q[2] = arg[p].case_id
        /\ pre[q] = arg[p].file.stream}

\* C3: an upload stored in a case that already holds a file with identical
\* bytes gets a stored filename of its own and the same content hash as that
\* file; afterwards both files exist and the earlier one is unchanged.
C3_ReingestKeepsBoth ==
    \A p \in Procs :
       Stored(p) =>
          \A q \in SameBytesBefore(p) :
             /\ res[p].file_path # q
             /\ res[p].stored_filename # q[3]
             /\ res[p].file_hash = get_file_hash(pre[q])
             /\ q \in DOMAIN disk
             /\ disk[q] = pre[q]
             /\ res[p].file_path \in DOMAIN disk

\* identical non-empty bytes stored a second time in the same case
C3_Witness ==
    \E p \in Procs :
       /\ Stored(p)
       /\ Len(arg[p].file.stream) > 0
       /\ SameBytesBefore(p) # {}

\* the call got as far as the size check: the upload was valid and no write failed
Persisted(p) ==
    /\ Done(p, "save_uploaded_file")
    /\ res[p].kind \in {"ok", "FileTooLarge"}

\* C4: a save_uploaded_file whose persisted file exceeds MAX_FILE_SIZE returns
\* FileTooLarge, and after it the files on disk are the files that were there
\* before the call: nothing the call wrote remains.
C4_OversizeLeavesNoFile ==
    \A p \in Procs :
       (Persisted(p) /\ Len(arg[p].file.stream) > MAX_FILE_SIZE) =>
          /\ res[p].kind = "FileTooLarge"
          /\ disk = pre

\* an oversize upload rejected while another file is stored
C4_Witness ==
    \E p \in Procs :
       /\ Done(p, "save_uploaded_file")
       /\ res[p].kind = "FileTooLarge"
       /\ DOMAIN pre # {}

\* C5: whenever save_uploaded_file returns a failure (NoFile, UnsupportedType,
\* WriteFailure, FileTooLarge) the files on disk are those from before the call.
C5_FailureLeavesNoFile ==
    \A p \in Procs :
       (/\ Done(p, "save_uploaded_file")
        /\ res[p].kind \in {"NoFile", "UnsupportedType", "WriteFailure",
                            "FileTooLarge"})
          => disk = pre

\* the files of a case stored under the identifier document_id
StoredAs(d, document_id, case_id) ==
    {q \in DOMAIN d : q[2] = case_id /\ StemOf(q[3]) = document_id}

\* C6: right after a successful save_uploaded_file, and in any later
\* get_file_path call made while the document is still stored, get_file_path
\* with the document's identifier and case returns the path of its file, which
\* exists, whatever else the case holds.
C6_LocateFindsStored ==
    \A p \in Procs :
       /\ Stored(p) =>
             /\ res[p].file_path \in DOMAIN disk
             /\ get_file_path(disk, dirs, res[p].document_id, res[p].case_id)
                   = {res[p].file_path}
       /\ Done(p, "get_file_path") =>
             \A q \in StoredAs(disk, arg[p].document_id, arg[p].case_id) :
                res[p].file_path = q

\* a document found by its identifier in a case that holds two documents
C6_Witness ==
    \E p \in Procs :
       /\ Done(p, "get_file_path")
       /\ StoredAs(disk, arg[p].document_id, arg[p].case_id) # {}
       /\ Cardinality(ListDir(disk, CaseDir(arg[p].case_id))) = 2

\* C7: get_file_path returns a path only when the case holds a file whose
\* generated identifier is exactly the requested document_id.
C7_LocateOnlyExactIdentifier ==
    \A p \in Procs :
       (Done(p, "get_file_path") /\ res[p].file_path # NoPath) =>
          res[p].file_path \in StoredAs(disk, arg[p].document_id, arg[p].case_id)

\* C8: after a successful delete_file the same identifier is no longer found
\* in the case, and delete_file for an identifier under which nothing was
\* stored in the case returns NotFound and removes nothing.
C8_DeleteThenNotFound ==
    \A p \in Procs :
       Done(p, "delete_file") =>
          /\ res[p].kind = "deleted" =>
                get_file_path(disk, dirs, arg[p].document_id, arg[p].case_id)
                   = {NoPath}
          /\ StoredAs(pre, arg[p].document_id, arg[p].case_id) = {} =>
                (res[p].kind = "NotFound" /\ disk = pre)

\* a save_uploaded_file call is under way, its destination chosen
InSave(p) ==
    /\ arg[p].op = "save_uploaded_file"
    /\ pc[p] \in {"makedirs", "open", "copy", "getsize", "gethash", "checksize"}

\* the destination of a save_uploaded_file call that has chosen or returned one
Dest(p) == IF pc[p] = "done" THEN res[p].file_path ELSE loc[p].file_path

\* C9: concurrent save_uploaded_file calls never share a destination: two
\* calls have different stored filenames, a call opens a destination that
\* does not exist yet, and what is at its destination is what it wrote itself.
C9_DestinationsNeverCollide ==
    /\ \A p, q \in Procs :
          (p # q /\ (InSave(p) \/ Stored(p)) /\ (InSave(q) \/ Stored(q)))
             => Dest(p) # Dest(q)
    /\ \A p \in Procs :
          /\ pc[p] = "open" => loc[p].file_path \notin DOMAIN disk
          /\ (pc[p] = "copy" /\ loc[p].file_path \in DOMAIN disk)
                => disk[loc[p].file_path] = <<>>
          /\ (pc[p] \in {"getsize", "gethash", "checksize"}
              /\ arg[p].op = "save_uploaded_file"
              /\ loc[p].file_path \in DOMAIN disk)
                => disk[loc[p].file_path] = arg[p].file.stream

\* two uploads to the same case under way at once, both past the open
C9_Witness ==
    \E p, q \in Procs :
       /\ p # q
       /\ pc[p] = "copy" /\ pc[q] = "gethash"
       /\ arg[p].case_id = arg[q].case_id
       /\ loc[p].file_path \in DOMAIN disk
       /\ loc[q].file_path \in DOMAIN disk

\* C10: a list_uploaded_files call that runs beside delete_file calls on the
\* same case always returns a sequence of entries; no exception leaves it.
C10_ListNeverRaises ==
    \A p \in Procs : Done(p, "list_uploaded_files") => res[p].kind = "list"

\* C11: every successful save_uploaded_file returns metadata with processing
\* status 'pending', no tags and version 1, whose stored filename is the
\* document identifier, a dot and the extension, whose file_path is the upload
\* root, the case identifier and the stored filename, and a file exists at
\* that path when the call returns.
C11_MetadataLayout ==
    \A p \in Procs :
       Stored(p) =>
          /\ res[p].ocr_status = "pending"
          /\ res[p].tags = <<>>
          /\ res[p].version = 1
          /\ res[p].stored_filename
                = res[p].document_id \o <<".">> \o res[p].file_type
          /\ res[p].file_path
                = <<"uploads", arg[p].case_id, res[p].stored_filename>>
          /\ res[p].case_id = arg[p].case_id
          /\ res[p].file_path \in DOMAIN disk

\* a document stored in the second case while the first case holds one
C11_Witness ==
    \E p \in Procs :
       /\ Stored(p)
       /\ arg[p].case_id = "SAML-00002"
       /\ \E q \in DOMAIN pre : q[2] = "SAML-00001"

\* C14: for every claimed filename allowed_file accepts, save_uploaded_file
\* derives the lowercased extension of the claimed filename and goes on to
\* storage and a result, also when sanitising removes the whole stem or the
\* dot: no exception leaves the call while it derives the extension.
C14_AcceptedNameNeverAborts ==
    \A p \in Procs :
       (/\ Done(p, "save_uploaded_file")
        /\ Truthy(arg[p].file)
        /\ HasListedExtension(arg[p].file.filename))
          => /\ res[p].kind # "raised"
             /\ res[p].kind = "ok" =>
                   res[p].file_type = Lower(RSplit1(arg[p].file.filename)[2])

\* C16: save_uploaded_file fails with FileTooLarge exactly when the persisted
\* size is strictly greater than MAX_FILE_SIZE: a file of MAX_FILE_SIZE bytes is
\* accepted and kept on disk, a larger one is rejected and removed.
C16_TooLargeIffOverLimit ==
    \A p \in Procs :
       Persisted(p) =>
          /\ res[p].kind = "FileTooLarge"
                <=> Len(arg[p].file.stream) >= MAX_FILE_SIZE + 1
          /\ res[p].kind = "ok" =>
                /\ res[p].file_path \in DOMAIN disk
                /\ Len(disk[res[p].file_path]) = Len(arg[p].file.stream)
          /\ res[p].kind = "FileTooLarge" => disk = pre

\* a file of exactly MAX_FILE_SIZE bytes stored
C16_Witness ==
    \E p \in Procs :
       /\ Stored(p)
       /\ Len(arg[p].file.stream) = MAX_FILE_SIZE
       /\ res[p].file_path \in DOMAIN disk

\* the files a call removed
RemovedSince(before, after) == DOMAIN before \ DOMAIN after

\* C17: delete_file removes at most one file, and only the file of the case
\* whose identifier is exactly document_id; every other file of every case is
\* left as it was, and a call that returns NotFound or DeleteFailure removed
\* nothing.
C17_DeleteOnlyTheDocument ==
    \A p \in Procs :
       Done(p, "delete_file") =>
          /\ Cardinality(RemovedSince(pre, disk)) <= 1
          /\ RemovedSince(pre, disk)
                \subseteq StoredAs(pre, arg[p].document_id, arg[p].case_id)
          /\ \A q \in DOMAIN disk : q \in DOMAIN pre /\ disk[q] = pre[q]
          /\ res[p].kind \in {"NotFound", "DeleteFailure"} => disk = pre

\* the path and size of the entries list_uploaded_files returned
Listed(files) ==
    {[path |-> files[i].path, size |-> files[i].size] : i \in 1..Len(files)}

\* C12: after any sequence of save_uploaded_file and delete_file calls that
\* do not overlap, list_uploaded_files for a case returns exactly one entry per
\* document stored in that case and not deleted since, each with the size
\* returned when it was stored, and nothing else; it returns no entry when the
\* case directory does not exist.
C12_ListIsStoredMinusDeleted ==
    \A p \in Procs :
       Done(p, "list_uploaded_files") =>
          /\ res[p].kind = "list"
          /\ Listed(res[p].files)
                = {e \in ingested : e.path[2] = arg[p].case_id}
          /\ Len(res[p].files) = Cardinality(Listed(res[p].files))
          /\ CaseDir(arg[p].case_id) \notin dirs => res[p].files = <<>>

\* two delete_file calls under way or returned, for the same whole identifier
\* and case, whose file was there when the later of them began
SameDelete(p, q) ==
    /\ p # q
    /\ arg[p].op = "delete_file" /\ arg[q].op = "delete_file"
    /\ arg[p].document_id = arg[q].document_id
    /\ arg[p].case_id = arg[q].case_id
    /\ Len(arg[p].document_id) = UUID_LEN
    /\ StoredAs(pre, arg[p].document_id, arg[p].case_id) # {}

Returned(p) ==
    IF Done(p, "get_file_path") THEN {res[p].file_path} \ {NoPath}
    ELSE IF Done(p, "list_uploaded_files") /\ res[p].kind = "list"
    THEN {res[p].files[i].path : i \in 1..Len(res[p].files)}
    ELSE {}

\* the upload is written out in full and is over the limit: the call is about
\* to remove it and return FileTooLarge
Doomed(q) ==
    /\ InSave(q)
    /\ pc[q] \in {"getsize", "gethash", "checksize"}
    /\ Len(arg[q].file.stream) > MAX_FILE_SIZE

\* C18: save_uploaded_file is atomic to concurrent get_file_path and
\* list_uploaded_files calls on the same case: they never return the file of
\* an upload that ends in failure, such as an oversize file between its write
\* and its removal, and never report for a file a size other than the one in
\* the metadata of its successful upload.
C18_ReadersSeeWholeUploads ==
    \A p, q \in Procs :
       /\ Doomed(q) => loc[q].file_path \notin Returned(p)
       /\ (Stored(q) /\ Done(p, "list_uploaded_files") /\ res[p].kind = "list") =>
             \A i \in 1..Len(res[p].files) :
                res[p].files[i].path = res[q].file_path
                   => res[p].files[i].size = res[q].file_size

\* the case of this number, and the cases of these ids, have the user as client
ClientOf(user, case_number, case_ids) ==
    /\ case_number # "" =>
          \E c \in db.cases : c.case_number = case_number /\ c.client_id = user.id
    /\ \A id \in case_ids :
          \E c \in db.cases : c.id = id /\ c.client_id = user.id

\* C13: the application is login-gated: a request of a session that is not
\* logged in to a route that renders case data (dashboard, documents, timeline,
\* notes, files, case details, billing, communications, ...) never gets case
\* content; it is redirected to the login page.
C13_LoginGated ==
    (/\ ~response.user.is_authenticated
     /\ response.route \notin {"", "health", "login"})
       => /\ response.status = "redirect_login"
          /\ response.case = ""
          /\ response.rows = {}

\* C19: a logged-in user is only shown, and only adds rows to, a case whose
\* client they are: on every login-required route the case and the rows
\* rendered or added belong to a case whose client_id is the user's id, and a
\* user without such a case sees and changes no case data.
C19_OnlyOwnCase ==
    (/\ response.user.is_authenticated
     /\ response.route \in LoginRequired)
       => ClientOf(response.user, response.case,
                   response.rows \cup response.wrote)

====
